---- MODULE Spec2Model ----
(***************************************************************************)
(* State-machine model of the in-memory SQL engine of src/.cpp:            *)
(* Value, Row, Table and Database::execute.  Statement texts are TLA+      *)
(* strings and are tokenised, bracket-extracted, comma-split, case-folded  *)
(* and coerced character by character, as the C++ does.                    *)
(***************************************************************************)
EXTENDS Integers, Sequences, FiniteSets, TLC

VARIABLES tables, outcome

vars == <<tables, outcome>>

(***************************************************************************)
(* Characters.  A character is a string of length one.  Ascii lists the    *)
(* characters the statements use in increasing order of their char code,   *)
(* so positions in it compare as unsigned char codes do.                   *)
(***************************************************************************)
Ascii == " '()*,-0123456789<=>ABCDEFGHIJKLMNOPQRSTUVWXYZ_abcdefghijklmnopqrstuvwxyz"

Upper == "ABCDEFGHIJKLMNOPQRSTUVWXYZ"

Lower == "abcdefghijklmnopqrstuvwxyz"

Digits == "0123456789"

\* A function given by a rule, stored as its table of values (f @@ <<>>
\* equals f).
Tabulated(f) == f @@ <<>>

CharAt(s, i) == SubSeq(s, i, i)

CharsOf(s) == {CharAt(s, i) : i \in 1..Len(s)}

IndexIn(s, c) == CHOOSE i \in 1..Len(s) : CharAt(s, i) = c

Ord == Tabulated([c \in CharsOf(Ascii) |-> IndexIn(Ascii, c)])

isspace(c) == c = " "

isdigit(c) == c \in CharsOf(Digits)

DigitVal == Tabulated([c \in CharsOf(Digits) |-> IndexIn(Digits, c) - 1])

tolower == Tabulated([c \in CharsOf(Ascii) |-> IF c \in CharsOf(Upper) THEN CharAt(Lower, IndexIn(Upper, c)) ELSE c])

\* to_lower: std::transform with ::tolower, character by character.
RECURSIVE to_lower(_)
to_lower(s) == IF s = "" THEN "" ELSE tolower[Head(s)] \o to_lower(Tail(s))

\* std::string operator< : lexicographic on char codes, a proper prefix first.
RECURSIVE StrLess(_, _)
StrLess(x, y) ==
    IF y = "" THEN FALSE
    ELSE IF x = "" THEN TRUE
    ELSE IF Head(x) = Head(y) THEN StrLess(Tail(x), Tail(y))
    ELSE Ord[Head(x)] < Ord[Head(y)]

NPOS == -1

\* std::string::find(needle, from): first 0-based position >= from, or NPOS.
RECURSIVE Find(_, _, _)
Find(s, needle, from) ==
    IF from + Len(needle) > Len(s) THEN NPOS
    ELSE IF SubSeq(s, from + 1, from + Len(needle)) = needle THEN from
    ELSE Find(s, needle, from + 1)

\* std::string::substr(pos, count), 0-based, count clipped to the end.
substr(s, pos, count) ==
    SubSeq(s, pos + 1, IF pos + count > Len(s) THEN Len(s) ELSE pos + count)

RECURSIVE SkipSpaces(_)
SkipSpaces(s) == IF s # "" /\ isspace(Head(s)) THEN SkipSpaces(Tail(s)) ELSE s

RECURSIVE DropTrailingSpaces(_)
DropTrailingSpaces(s) ==
    IF Len(s) > 1 /\ isspace(CharAt(s, Len(s)))
    THEN DropTrailingSpaces(SubSeq(s, 1, Len(s) - 1))
    ELSE s

\* trim: `start` skips leading spaces; `end` walks back from the last
\* character while it is a space and lies after `start`.  On an empty or
\* all-space string the range [start, end + 1) is empty.
trim(s) == DropTrailingSpaces(SkipSpaces(s))

\* The first entry of a sequence of error messages that is an error: the
\* exception a loop throws at its first failing iteration.  A failure is the
\* std::runtime_error thrown, named by the fixed prefix of its message.
NoError == ""

FirstIndex(S) == CHOOSE i \in S : \A j \in S : i <= j

FirstError(errs) ==
    IF \A i \in DOMAIN errs : errs[i] = NoError THEN NoError
    ELSE errs[FirstIndex({i \in DOMAIN errs : errs[i] # NoError})]

\* extract_bracketed_content: the text strictly between the first "(" and
\* the first ")" after it.  With no "(" the search for ")" starts at
\* npos + 1 = 0; either bracket missing throws.
bracketed(s, start, end) ==
    IF start = NPOS \/ end = NPOS
    THEN [ok |-> FALSE, str |-> ""]
    ELSE [ok |-> TRUE, str |-> substr(s, start + 1, end - start - 1)]

bracketed_from(s, start) == bracketed(s, start, Find(s, ")", start + 1))

extract_bracketed_content(s) == bracketed_from(s, Find(s, "(", 0))

\* split_by_comma: std::getline pieces on ",", each trimmed, empty ones dropped.
nonempty_part(part) == IF part = "" THEN <<>> ELSE <<part>>

RECURSIVE split_by_comma(_)
getline_at(s, p) ==
    IF p = NPOS THEN nonempty_part(trim(s))
    ELSE nonempty_part(trim(substr(s, 0, p))) \o split_by_comma(SubSeq(s, p + 2, Len(s)))

split_by_comma(s) == IF s = "" THEN <<>> ELSE getline_at(s, Find(s, ",", 0))

\* split_sql: the loop over the characters of the statement, carrying the
\* finished tokens, the current token and the in_quote flag.
RECURSIVE split_sql_loop(_, _, _, _)
split_sql_loop(rest, tokens, token, in_quote) ==
    IF rest = ""
    THEN IF token # "" THEN Append(tokens, token) ELSE tokens
    ELSE IF Head(rest) = "'"
    THEN split_sql_loop(Tail(rest), tokens, token \o Head(rest), ~in_quote)
    ELSE IF Head(rest) = " " /\ ~in_quote
    THEN IF token # ""
         THEN split_sql_loop(Tail(rest), Append(tokens, token), "", in_quote)
         ELSE split_sql_loop(Tail(rest), tokens, token, in_quote)
    ELSE split_sql_loop(Tail(rest), tokens, token \o Head(rest), in_quote)

split_sql(sql) == split_sql_loop(sql, <<>>, "", FALSE)

\* operator>> of a stringstream into a std::string: skip spaces, then take
\* characters up to the next space.  word is "" when nothing is left.
RECURSIVE TakeWord(_, _)
TakeWord(s, word) ==
    IF s = "" \/ isspace(Head(s)) THEN [word |-> word, rest |-> s]
    ELSE TakeWord(Tail(s), word \o Head(s))

ReadWord(s) == TakeWord(SkipSpaces(s), "")

DT_INT == "INT"

DT_STRING == "STRING"

\* Value(int) and Value(const std::string&)
IntValue(i) == [type |-> DT_INT, int_val |-> i, str_val |-> ""]

StrValue(s) == [type |-> DT_STRING, int_val |-> 0, str_val |-> s]

\* Value::operator==
ValueEq(v, w) ==
    IF v.type # w.type THEN FALSE
    ELSE IF v.type = DT_INT THEN v.int_val = w.int_val
    ELSE v.str_val = w.str_val

\* str_to_type
type_named(upper_type) ==
    IF upper_type = "int" THEN [ok |-> TRUE, type |-> DT_INT]
    ELSE IF upper_type = "string" THEN [ok |-> TRUE, type |-> DT_STRING]
    ELSE [ok |-> FALSE, type |-> DT_INT]

str_to_type(type_str) == type_named(to_lower(type_str))

INT_MAX == 2147483647

\* str_to_value, INT: the characters of val_str that are digits or "-".
RECURSIVE KeepNumeric(_)
KeepNumeric(s) ==
    IF s = "" THEN ""
    ELSE (IF isdigit(Head(s)) \/ Head(s) = "-" THEN Head(s) ELSE "") \o KeepNumeric(Tail(s))

RECURSIVE LeadingDigits(_)
LeadingDigits(s) ==
    IF s # "" /\ isdigit(Head(s)) THEN Head(s) \o LeadingDigits(Tail(s)) ELSE ""

RECURSIVE DecimalValue(_)
DecimalValue(d) ==
    IF d = "" THEN 0
    ELSE 10 * DecimalValue(SubSeq(d, 1, Len(d) - 1)) + DigitVal[CharAt(d, Len(d))]

\* std::stoi on a string of digits and "-": an optional sign, then the
\* longest run of digits; no digit or a value outside int throws.
stoi_in_range(n) ==
    IF n > INT_MAX \/ n < 0 - INT_MAX - 1
    THEN [ok |-> FALSE, val |-> 0]
    ELSE [ok |-> TRUE, val |-> n]

stoi_digits(digits, neg) ==
    IF digits = "" THEN [ok |-> FALSE, val |-> 0]
    ELSE stoi_in_range(IF neg THEN 0 - DecimalValue(digits) ELSE DecimalValue(digits))

stoi(num_str) ==
    IF num_str # "" /\ Head(num_str) = "-"
    THEN stoi_digits(LeadingDigits(Tail(num_str)), TRUE)
    ELSE stoi_digits(LeadingDigits(num_str), FALSE)

\* str_to_value: for INT every character that is not a digit or "-" is
\* dropped before std::stoi, and a std::stoi failure becomes "Invalid
\* integer value"; for STRING one leading and then one trailing quote are
\* dropped.
int_value(r) ==
    IF r.ok THEN [err |-> NoError, val |-> IntValue(r.val)]
    ELSE [err |-> "Invalid integer value", val |-> IntValue(0)]

drop_back_quote(str) ==
    IF str # "" /\ CharAt(str, Len(str)) = "'" THEN SubSeq(str, 1, Len(str) - 1) ELSE str

drop_front_quote(str) == IF str # "" /\ Head(str) = "'" THEN Tail(str) ELSE str

str_to_value(val_str, type) ==
    IF type = DT_INT
    THEN int_value(stoi(KeepNumeric(val_str)))
    ELSE [err |-> NoError, val |-> StrValue(drop_back_quote(drop_front_quote(val_str)))]

(***************************************************************************)
(* The statements given to execute.  Tables: t (a INT, b STRING); u, whose *)
(* two declarations differ in the casing of the name and in the columns;   *)
(* w is never created.  Identifiers, keywords and literals appear in       *)
(* several casings and shapes, and every branch of execute has well-formed *)
(* and malformed statements.                                               *)
(***************************************************************************)
CreateTexts ==
    {"CREATE TABLE t (a INT, b STRING)",
     "create table U (k int, K int)",
     "CREATE TABLE u (k INT)",
     "CREATE TABLE w (a FLOAT)",
     "CREATE TABLE w (a)",
     "CREATE TABLE w a INT",
     "CREATE TABLE",
     "CREATE"}

InsertTexts ==
    {"INSERT INTO t (a, b) VALUES (1, 'x')",
     "INSERT INTO T (a, b) VALUES (1, 'x')",
     "insert into T (A, b) values (2, 'y')",
     "INSERT INTO t (a, A, b) VALUES (1, 2, 'x')",
     "INSERT INTO t (a, b) VALUES ('a1b', 'x')",
     "INSERT INTO t (a, b) VALUES ('x', 'x')",
     "INSERT INTO t (a) VALUES (1)",
     "INSERT INTO t (a, b) VALUES (1)",
     "INSERT INTO t (a, c) VALUES (1, 'x')",
     "INSERT INTO t (a, b) Values (1, 'x')",
     "INSERT INTO t a, b VALUES (1, 'x')",
     "INSERT INTO w (a) VALUES (1)",
     "INSERT INTO u (k, K) VALUES (1, 2)",
     "INSERT INTO",
     "INSERT"}

SelectTexts ==
    {"SELECT * FROM t",
     "select * from T",
     "SELECT a FROM t WHERE a = 1",
     "SELECT b,A FROM T WHERE B = 'x'",
     "SELECT a,b FROM t WHERE a = 2",
     "SELECT zz FROM t",
     "SELECT zz FROM t WHERE a = 1",
     "SELECT a FROM t WHERE zz = 1",
     "SELECT a FROM t WHERE a > 1",
     "SELECT a FROM t WHERE a = 'x'",
     "SELECT a FROM t WHERE a",
     "SELECT a FROM t WHERE a =",
     "SELECT , FROM t",
     "SELECT * FROM w",
     "SELECT * FROM u",
     "SELECT K FROM U WHERE k = 2",
     "SELECT a",
     "SELECT"}

UpdateTexts ==
    {"UPDATE t SET a = 2",
     "UPDATE t SET a = 2 WHERE a = 1",
     "UPDATE T SET a = 2 WHERE a = 1",
     "update T set A = 1 where B = 'x'",
     "UPDATE t SET a = 1 WHERE a = 2",
     "UPDATE t SET a = 2 WHERE a",
     "UPDATE t SET a = 2 WHERE a =",
     "UPDATE t SET a = 2 WHERE zz = 1",
     "UPDATE t SET a = 2 WHERE a > 1",
     "UPDATE t SET a = 'x'",
     "UPDATE t SET zz = 1",
     "UPDATE t SET a > 1",
     "UPDATE t SET a =",
     "UPDATE t SET a",
     "UPDATE t",
     "UPDATE w SET a = 1",
     "UPDATE u SET k = 1",
     "UPDATE"}

DeleteTexts ==
    {"DELETE FROM t",
     "DELETE FROM t WHERE a = 1",
     "DELETE FROM T WHERE a = 1",
     "delete from T where A = 2",
     "DELETE FROM t WHERE b = 'x'",
     "DELETE FROM t WHERE",
     "DELETE FROM t WHERE a",
     "DELETE FROM t WHERE a =",
     "DELETE FROM t WHERE zz = 1",
     "DELETE FROM t WHERE a > 1",
     "DELETE FROM t WHERE a = 'x'",
     "DELETE FROM w",
     "DELETE FROM u WHERE K = 2",
     "DELETE FROM",
     "DELETE"}

OtherTexts == {"", "   ", "DROP TABLE t", "TABLE t"}

SqlTexts ==
    CreateTexts \cup InsertTexts \cup SelectTexts \cup UpdateTexts \cup DeleteTexts \cup OtherTexts

\* split_sql of each statement, computed once.
TokensOf == Tabulated([sql \in SqlTexts |-> split_sql(sql)])

(***************************************************************************)
(* Row: std::map<std::string, Value>, a function from its keys (the column *)
(* names as they were written) to Values.  The map iterates in increasing  *)
(* key order, so a case-insensitive lookup returns the matching key that   *)
(* is least under StrLess.                                                 *)
(***************************************************************************)
EmptyRow == <<>>

\* Row::set_value: insert_or_assign under the exact spelling col_name.
set_value(row, col_name, val) ==
    [k \in (DOMAIN row) \cup {col_name} |-> IF k = col_name THEN val ELSE row[k]]

\* set_value for each name and its value, in order.
RECURSIVE set_values(_, _, _)
set_values(row, names, vals) ==
    IF names = <<>> THEN row
    ELSE set_values(set_value(row, Head(names), Head(vals)), Tail(names), Tail(vals))

KeysLowering(row, col_lower) == {k \in DOMAIN row : to_lower(k) = col_lower}

MatchingKeys(row, col_name) == KeysLowering(row, to_lower(col_name))

FirstKey(keys) == CHOOSE k \in keys : \A o \in keys : o = k \/ StrLess(k, o)

\* Row::has_column
Row_has_column(row, col_name) == MatchingKeys(row, col_name) # {}

\* Row::get_value: the first entry, in map order, whose lowercased key
\* equals the lowercased name; throws (ok = FALSE) when there is none.
value_under(row, keys) ==
    IF keys = {}
    THEN [ok |-> FALSE, val |-> IntValue(0)]
    ELSE [ok |-> TRUE, val |-> row[FirstKey(keys)]]

get_value(row, col_name) == value_under(row, MatchingKeys(row, col_name))

(***************************************************************************)
(* Table: name, columns (the schema, a sequence of Column) and rows.       *)
(***************************************************************************)
Column(n, t) == [name |-> n, type |-> t]

Table(n, cols) == [name |-> n, columns |-> cols, rows |-> <<>>]

ColumnsLowering(columns, col_lower) ==
    {i \in 1..Len(columns) : to_lower(columns[i].name) = col_lower}

MatchingColumns(columns, col_name) == ColumnsLowering(columns, to_lower(col_name))

\* Table::has_column
has_column(table, col_name) == MatchingColumns(table.columns, col_name) # {}

\* The first schema column matching a name case-insensitively: the
\* std::find_if lookups of execute, Table::get_column_type and the
\* "original column name" loops of select and update (name "" when none
\* matches).
first_column(columns, found) ==
    IF found = {}
    THEN [ok |-> FALSE, name |-> "", type |-> DT_INT]
    ELSE [ok |-> TRUE, name |-> columns[FirstIndex(found)].name,
          type |-> columns[FirstIndex(found)].type]

find_column(table, col_name) ==
    first_column(table.columns, MatchingColumns(table.columns, col_name))

\* Table::get_column_type
get_column_type(table, col_name) == find_column(table, col_name).type

original_col_name(table, col) == find_column(table, col).name

\* Table::insert: every schema column must be present in the row
\* (case-insensitively) with the declared type; then the row is appended.
column_check(col, val) ==
    IF ~val.ok THEN "Missing column"
    ELSE IF val.val.type # col.type THEN "Type mismatch for column"
    ELSE NoError

insert_check(columns, row) ==
    FirstError(Tabulated([i \in 1..Len(columns) |->
                   column_check(columns[i], get_value(row, columns[i].name))]))

\* A push_back that appends the row although a check failed.  The property
\* of C2 distinguishes it from push_back.
push_back_unchecked(table, row, err) ==
    [err |-> err, table |-> [table EXCEPT !.rows = Append(@, row)]]

push_back(table, row, err) ==
    IF err # NoError
    THEN [err |-> err, table |-> table]
    ELSE [err |-> NoError, table |-> [table EXCEPT !.rows = Append(@, row)]]

\* An insert that puts the row in front of the stored rows.  The property
\* of C3 distinguishes it from insert.
insert_in_front(table, row) ==
    IF insert_check(table.columns, row) # NoError
    THEN [err |-> insert_check(table.columns, row), table |-> table]
    ELSE [err |-> NoError, table |-> [table EXCEPT !.rows = <<row>> \o @]]

insert(table, row) == push_back(table, row, insert_check(table.columns, row))

\* An absent WHERE clause is the nullptr where_clause.
NoWhere == [present |-> FALSE, col |-> "", val |-> IntValue(0)]

Where(col, val) == [present |-> TRUE, col |-> col, val |-> val]

\* The WHERE test done per row by select and update.
\* err: the column is not in the schema, or the row has no such value.
where_test(known, got, val) ==
    IF ~known THEN [err |-> "Column not found in WHERE", match |-> FALSE]
    ELSE IF ~got.ok THEN [err |-> "Column not found", match |-> FALSE]
    ELSE [err |-> NoError, match |-> ValueEq(got.val, val)]

row_match(table, row, where_clause) ==
    IF ~where_clause.present THEN [err |-> NoError, match |-> TRUE]
    ELSE where_test(has_column(table, where_clause.col),
                    get_value(row, where_clause.col), where_clause.val)

\* The result row built for one matching row: for each selected column, in
\* order, the column must be known and the row must hold it; its value is
\* stored under names[j].
select_check(known, got) ==
    IF ~known THEN "Column not found in SELECT"
    ELSE IF ~got.ok THEN "Column not found"
    ELSE NoError

new_row(names, known, gots) ==
    [err |-> FirstError(Tabulated([j \in 1..Len(names) |-> select_check(known[j], gots[j])])),
     row |-> set_values(EmptyRow, names, [j \in 1..Len(names) |-> gots[j].val])]

\* "*" (or an empty list): every schema column under its declared spelling.
project_all(table, row) ==
    new_row([j \in 1..Len(table.columns) |-> table.columns[j].name],
            [j \in 1..Len(table.columns) |-> TRUE],
            Tabulated([j \in 1..Len(table.columns) |-> get_value(row, table.columns[j].name)]))

\* An explicit list: each column under the declared spelling of the first
\* schema column it matches.
project_cols(table, row, select_cols) ==
    new_row([j \in 1..Len(select_cols) |-> original_col_name(table, select_cols[j])],
            Tabulated([j \in 1..Len(select_cols) |-> has_column(table, select_cols[j])]),
            Tabulated([j \in 1..Len(select_cols) |-> get_value(row, select_cols[j])]))

project(table, row, select_cols) ==
    IF select_cols = <<>> \/ select_cols[1] = "*"
    THEN project_all(table, row)
    ELSE project_cols(table, row, select_cols)

\* One iteration of the loop of Table::select: the WHERE test, then, for a
\* matching row only, the projection.
selected_row(m, p) ==
    IF m.err # NoError THEN [err |-> m.err, match |-> FALSE, row |-> EmptyRow]
    ELSE IF ~m.match THEN [err |-> NoError, match |-> FALSE, row |-> EmptyRow]
    ELSE [err |-> p.err, match |-> TRUE, row |-> p.row]

RECURSIVE matching_rows(_)
matching_rows(selected) ==
    IF selected = <<>> THEN <<>>
    ELSE (IF Head(selected).match THEN <<Head(selected).row>> ELSE <<>>)
             \o matching_rows(Tail(selected))

\* A select_result that returns an entry for every stored row, matching or
\* not.  The property of C10 distinguishes it from select_result.
select_result_unfiltered(selected) ==
    [err |-> FirstError([i \in 1..Len(selected) |-> selected[i].err]),
     result |-> [i \in 1..Len(selected) |-> selected[i].row]]

select_result(selected) ==
    [err |-> FirstError([i \in 1..Len(selected) |-> selected[i].err]),
     result |-> matching_rows(selected)]

\* Table::select: the loop over the stored rows.  Both column checks sit
\* inside the loop, so they run only for a row that is reached (WHERE
\* column) or that matches (SELECT columns).
select(table, select_cols, where_clause) ==
    select_result(Tabulated([i \in 1..Len(table.rows) |->
        selected_row(row_match(table, table.rows[i], where_clause),
                     project(table, table.rows[i], select_cols))]))

\* An update loop that writes set_val into every row, matching or not.
\* The property of C5 distinguishes it from update_rows.
update_rows_unconditionally(table, matches, name, set_val) ==
    [err |-> FirstError([i \in 1..Len(matches) |-> matches[i].err]),
     table |-> [table EXCEPT !.rows =
                   [i \in 1..Len(matches) |-> set_value(table.rows[i], name, set_val)]]]

\* Table::update, the loop over the rows: a matching row gets set_val under
\* the declared spelling of the SET column.  The rows are changed in place,
\* so a throw at one row keeps the rows changed before it.
update_rows(table, matches, name, set_val) ==
    [err |-> FirstError([i \in 1..Len(matches) |-> matches[i].err]),
     table |-> [table EXCEPT !.rows =
                   [i \in 1..Len(matches) |->
                       IF matches[i].match /\ \A j \in 1..i : matches[j].err = NoError
                       THEN set_value(table.rows[i], name, set_val)
                       ELSE table.rows[i]]]]

\* Table::update: the SET column and the type of its value are checked
\* before the loop.
update(table, set_clause, where_clause) ==
    IF ~has_column(table, set_clause.col)
    THEN [err |-> "Column not found in SET", table |-> table]
    ELSE IF set_clause.val.type # get_column_type(table, set_clause.col)
    THEN [err |-> "Type mismatch for column", table |-> table]
    ELSE update_rows(table,
             Tabulated([i \in 1..Len(table.rows) |->
                 row_match(table, table.rows[i], where_clause)]),
             original_col_name(table, set_clause.col), set_clause.val)

\* The std::remove_if / erase of delete_rows: the rows whose value for col
\* differs from val, in their order.
equals(got, val) == got.ok /\ ValueEq(got.val, val)

RECURSIVE remove_if(_, _, _)
remove_if(rows, col, val) ==
    IF rows = <<>> THEN <<>>
    ELSE (IF equals(get_value(Head(rows), col), val) THEN <<>> ELSE <<Head(rows)>>)
             \o remove_if(Tail(rows), col, val)

\* A delete_rows that removes every row whatever the WHERE clause.  The
\* property of C6 distinguishes it from delete_rows.
delete_rows_ignoring_where(table, where_clause) ==
    [err |-> NoError, table |-> [table EXCEPT !.rows = <<>>]]

\* A delete_rows that removes the schema together with the rows.  The
\* property of C7 distinguishes it from delete_rows.
delete_rows_and_columns(table, where_clause) ==
    IF ~where_clause.present
    THEN [err |-> NoError, table |-> [table EXCEPT !.rows = <<>>, !.columns = <<>>]]
    ELSE IF ~has_column(table, where_clause.col)
    THEN [err |-> "Column not found in WHERE", table |-> table]
    ELSE [err |-> NoError,
          table |-> [table EXCEPT !.rows = remove_if(@, where_clause.col, where_clause.val)]]

\* Table::delete_rows.  (get_value cannot throw in the predicate: the
\* column is in the schema, and insert stores only rows that hold every
\* schema column.)
delete_rows(table, where_clause) ==
    IF ~where_clause.present
    THEN [err |-> NoError, table |-> [table EXCEPT !.rows = <<>>]]
    ELSE IF ~has_column(table, where_clause.col)
    THEN [err |-> "Column not found in WHERE", table |-> table]
    ELSE [err |-> NoError,
          table |-> [table EXCEPT !.rows = remove_if(@, where_clause.col, where_clause.val)]]

(***************************************************************************)
(* Database: tables is std::map<std::string, Table>, keyed by the          *)
(* lowercased table name.                                                  *)
(*                                                                         *)
(* execute returns nothing and throws std::runtime_error; what it did is   *)
(* modelled as a record: status "ok", "error" (the exception, msg its      *)
(* message prefix) or "crash", the tables afterwards and, for SELECT, the  *)
(* rows Table::select returned and the columns of the printed header.      *)
(***************************************************************************)
Done(tbls) ==
    [status |-> "ok", msg |-> NoError, tables |-> tbls,
     result |-> <<>>, display_cols |-> <<>>]

Throw(msg, tbls) ==
    [status |-> "error", msg |-> msg, tables |-> tbls,
     result |-> <<>>, display_cols |-> <<>>]

Crash(tbls) ==
    [status |-> "crash", msg |-> NoError, tables |-> tbls,
     result |-> <<>>, display_cols |-> <<>>]

(***************************************************************************)
(* tokens[i] is std::vector::operator[], which does not check i.  A read   *)
(* at i >= size() is undefined behaviour: the build may crash, or go on    *)
(* with whatever the memory past the last token reads as.  oob is that     *)
(* outcome, chosen nondeterministically per statement: a crash, or a       *)
(* string.                                                                 *)
(***************************************************************************)
OutOfBoundsReads ==
    {[crash |-> TRUE, str |-> ""], [crash |-> FALSE, str |-> ""],
     [crash |-> FALSE, str |-> "1"], [crash |-> FALSE, str |-> "'x'"]}

InBounds == [crash |-> FALSE, str |-> ""]

TokenAt(tokens, i, oob) == IF i < Len(tokens) THEN tokens[i + 1] ELSE oob.str

\* The scans for a keyword: the 0-based index of the first token that
\* lowercases to kw, NPOS when there is none.
first_position(found) == IF found = {} THEN NPOS ELSE FirstIndex(found) - 1

FindToken(tokens, kw) ==
    first_position({i \in 1..Len(tokens) : to_lower(tokens[i]) = kw})

\* std::map::emplace / assignment through the Table& reference.
PutTable(tbls, key, table) ==
    [k \in (DOMAIN tbls) \cup {key} |-> IF k = key THEN table ELSE tbls[k]]

\* The end of an INSERT, UPDATE or DELETE: the Table member function threw,
\* or returned and the message is printed.
finish(tbls, key, r) ==
    IF r.err # NoError
    THEN Throw(r.err, PutTable(tbls, key, r.table))
    ELSE Done(PutTable(tbls, key, r.table))

\* Value::to_string of an int: std::to_string.
RECURSIVE NatToString(_)
NatToString(n) ==
    IF n < 10 THEN CharAt(Digits, n + 1)
    ELSE NatToString(n \div 10) \o CharAt(Digits, (n % 10) + 1)

to_string(v) ==
    IF v.type = DT_INT
    THEN IF v.int_val < 0 THEN "-" \o NatToString(0 - v.int_val) ELSE NatToString(v.int_val)
    ELSE v.str_val

\* A typed_column that declares every column INT.  The property of C11
\* distinguishes it from typed_column.
typed_column_as_int(col_name, type) ==
    IF ~type.ok THEN [err |-> "Unknown data type", column |-> Column(col_name, DT_INT)]
    ELSE [err |-> NoError, column |-> Column(col_name, DT_INT)]

\* CREATE TABLE: one column definition, "<name> <type>".
typed_column(col_name, type) ==
    IF ~type.ok THEN [err |-> "Unknown data type", column |-> Column(col_name, DT_INT)]
    ELSE [err |-> NoError, column |-> Column(col_name, type.type)]

named_column(col_name, type_str) ==
    IF col_name = "" \/ type_str = ""
    THEN [err |-> "Invalid column definition", column |-> Column(col_name, DT_INT)]
    ELSE typed_column(col_name, str_to_type(type_str))

column_after(name_read) == named_column(name_read.word, ReadWord(name_read.rest).word)

column_def(def) == column_after(ReadWord(def))

\* CREATE TABLE: the loop over the column definitions.
columns_of(defs) ==
    [err |-> FirstError([i \in 1..Len(defs) |-> defs[i].err]),
     columns |-> [i \in 1..Len(defs) |-> defs[i].column]]

parse_col_defs(col_defs) ==
    columns_of(Tabulated([i \in 1..Len(col_defs) |-> column_def(col_defs[i])]))

col_defs_in(col_defs_str) ==
    IF ~col_defs_str.ok
    THEN [err |-> "Missing brackets in SQL statement", columns |-> <<>>]
    ELSE parse_col_defs(split_by_comma(col_defs_str.str))

\* CREATE TABLE: the column definitions read from the statement text (they
\* depend on the text alone).
column_defs(sql) == col_defs_in(extract_bracketed_content(sql))

\* column_defs of each CREATE statement, computed once.
ColumnDefsOf == Tabulated([sql \in CreateTexts |-> column_defs(sql)])

\* A create_table that registers the table under its name as written.  The
\* property of C9 distinguishes it from create_table.
create_table_as_written(tbls, table_name, parsed) ==
    IF parsed.err # NoError
    THEN Throw(parsed.err, tbls)
    ELSE Done(PutTable(tbls, table_name, Table(table_name, parsed.columns)))

\* execute, the CREATE TABLE branch.
create_table(tbls, table_name, parsed) ==
    IF parsed.err # NoError
    THEN Throw(parsed.err, tbls)
    ELSE Done(PutTable(tbls, to_lower(table_name), Table(table_name, parsed.columns)))

exec_create(tbls, sql, tokens) ==
    IF Len(tokens) < 3
    THEN Throw("Invalid CREATE TABLE syntax: missing table name", tbls)
    ELSE IF to_lower(tokens[3]) \in DOMAIN tbls
    THEN Throw("Table already exists", tbls)
    ELSE create_table(tbls, tokens[3], ColumnDefsOf[sql])

\* The value of a literal for a named column (INSERT, SET and WHERE do the
\* same): the column is looked up with std::find_if, then the literal is
\* coerced by the type of the column found.
typed_value(column, val_str) ==
    IF ~column.ok THEN [err |-> "Column not found", val |-> IntValue(0)]
    ELSE str_to_value(val_str, column.type)

\* INSERT: the loop that coerces each value by the type of its named column
\* and stores it in the row under the name as written in the statement.
row_of(cols, vals) ==
    [err |-> FirstError([i \in 1..Len(cols) |-> vals[i].err]),
     row |-> set_values(EmptyRow, cols, [i \in 1..Len(cols) |-> vals[i].val])]

build_row(table, cols, vals) ==
    row_of(cols, Tabulated([i \in 1..Len(cols) |->
                     typed_value(find_column(table, cols[i]), vals[i])]))

\* INSERT: the column list and the value list read from the statement text
\* (they depend on the text alone).  VALUES is searched for in the raw text
\* in upper case, then in lower case.
counted_lists(cols, vals) ==
    IF Len(cols) # Len(vals)
    THEN [err |-> "Column and value count mismatch", cols |-> cols, vals |-> vals]
    ELSE [err |-> NoError, cols |-> cols, vals |-> vals]

bracketed_lists(cols_str, vals_str) ==
    IF ~cols_str.ok \/ ~vals_str.ok
    THEN [err |-> "Missing brackets in SQL statement", cols |-> <<>>, vals |-> <<>>]
    ELSE counted_lists(split_by_comma(cols_str.str), split_by_comma(vals_str.str))

lists_around(sql, values_pos) ==
    IF values_pos = NPOS
    THEN [err |-> "Invalid INSERT syntax: missing VALUES clause", cols |-> <<>>, vals |-> <<>>]
    ELSE bracketed_lists(extract_bracketed_content(substr(sql, 0, values_pos)),
                         extract_bracketed_content(SubSeq(sql, values_pos + 1, Len(sql))))

find_values(sql, upper_pos) == IF upper_pos = NPOS THEN Find(sql, "values", 0) ELSE upper_pos

insert_lists(sql) == lists_around(sql, find_values(sql, Find(sql, "VALUES", 0)))

\* insert_lists of each INSERT statement, computed once.
InsertListsOf == Tabulated([sql \in InsertTexts |-> insert_lists(sql)])

\* execute, the INSERT INTO branch.
insert_row(tbls, key, built) ==
    IF built.err # NoError
    THEN Throw(built.err, tbls)
    ELSE finish(tbls, key, insert(tbls[key], built.row))

insert_into(tbls, key, lists) ==
    IF lists.err # NoError
    THEN Throw(lists.err, tbls)
    ELSE insert_row(tbls, key, build_row(tbls[key], lists.cols, lists.vals))

exec_insert(tbls, sql, tokens) ==
    IF 2 >= Len(tokens)
    THEN Throw("Invalid SQL syntax: missing table name", tbls)
    ELSE IF to_lower(tokens[3]) \notin DOMAIN tbls
    THEN Throw("Table not found", tbls)
    ELSE insert_into(tbls, to_lower(tokens[3]), InsertListsOf[sql])

\* The optional WHERE clause of SELECT, UPDATE and DELETE (the same code in
\* the three branches).  The clause is parsed when where_pos + 3 <= size;
\* with exactly two tokens after WHERE, tokens[where_pos + 3] is read out
\* of bounds.  With fewer the clause is skipped and where_clause stays null.
where_pair(col_name, val) ==
    IF val.err # NoError
    THEN [status |-> "error", msg |-> val.err, where |-> NoWhere]
    ELSE [status |-> "ok", msg |-> NoError, where |-> Where(col_name, val.val)]

where_at(tokens, table, oob, where_pos) ==
    IF ~(where_pos # NPOS /\ where_pos + 3 <= Len(tokens))
    THEN [status |-> "ok", msg |-> NoError, where |-> NoWhere]
    ELSE IF where_pos + 3 >= Len(tokens) /\ oob.crash
    THEN [status |-> "crash", msg |-> NoError, where |-> NoWhere]
    ELSE IF TokenAt(tokens, where_pos + 2, oob) # "="
    THEN [status |-> "error", msg |-> "Only '=' is supported in WHERE clause", where |-> NoWhere]
    ELSE where_pair(TokenAt(tokens, where_pos + 1, oob),
                    typed_value(find_column(table, TokenAt(tokens, where_pos + 1, oob)),
                                TokenAt(tokens, where_pos + 3, oob)))

parse_where(tokens, table, oob) == where_at(tokens, table, oob, FindToken(tokens, "where"))

\* What SELECT prints for one result row: the value of each display column.
printed_value(val) == IF val.ok THEN to_string(val.val) ELSE ""

PrintedRow(row, display_cols) ==
    [j \in 1..Len(display_cols) |-> printed_value(get_value(row, display_cols[j]))]

\* What SELECT prints under the header: one line per result row.
PrintedRows(result, display_cols) ==
    [i \in 1..Len(result) |-> PrintedRow(result[i], display_cols)]

\* SELECT: the columns of the header.  select_cols[0] is read even when
\* the list is empty.
header(table, select_cols, oob) ==
    IF (IF select_cols = <<>> THEN oob.str ELSE select_cols[1]) = "*"
    THEN [j \in 1..Len(table.columns) |-> table.columns[j].name]
    ELSE select_cols

\* execute, the SELECT branch.  tokens[1] is read without a size check.
print_result(tbls, table, select_cols, selected, oob) ==
    IF selected.err # NoError THEN Throw(selected.err, tbls)
    ELSE IF select_cols = <<>> /\ oob.crash THEN Crash(tbls)
    ELSE [Done(tbls) EXCEPT
             !.result = selected.result,
             !.display_cols = header(table, select_cols, oob)]

select_where(tbls, table, select_cols, w, oob) ==
    IF w.status = "crash" THEN Crash(tbls)
    ELSE IF w.status = "error" THEN Throw(w.msg, tbls)
    ELSE print_result(tbls, table, select_cols, select(table, select_cols, w.where), oob)

columns_selected(cols_str) == IF cols_str = "*" THEN <<"*">> ELSE split_by_comma(cols_str)

select_from(tbls, tokens, oob, from_pos) ==
    IF from_pos = NPOS \/ from_pos >= Len(tokens)
    THEN Throw("Invalid SELECT syntax: missing FROM clause or table name", tbls)
    ELSE IF to_lower(tokens[from_pos + 1]) \notin DOMAIN tbls
    THEN Throw("Table not found", tbls)
    ELSE select_where(tbls, tbls[to_lower(tokens[from_pos + 1])],
                      columns_selected(TokenAt(tokens, 1, oob)),
                      parse_where(tokens, tbls[to_lower(tokens[from_pos + 1])], oob), oob)

after_from(from_token) == IF from_token = NPOS THEN NPOS ELSE from_token + 1

exec_select(tbls, tokens, oob) ==
    IF Len(tokens) < 2 /\ oob.crash
    THEN Crash(tbls)
    ELSE select_from(tbls, tokens, oob, after_from(FindToken(tokens, "from")))

\* execute, the UPDATE branch.  The SET clause is accepted when
\* set_pos + 3 <= size; with exactly two tokens after SET,
\* tokens[set_pos + 3] is read out of bounds.
update_where(tbls, key, col_name, val, w) ==
    IF val.err # NoError THEN Throw(val.err, tbls)
    ELSE IF w.status = "crash" THEN Crash(tbls)
    ELSE IF w.status = "error" THEN Throw(w.msg, tbls)
    ELSE finish(tbls, key, update(tbls[key], [col |-> col_name, val |-> val.val], w.where))

update_set(tbls, key, tokens, oob, set_pos) ==
    IF set_pos = NPOS \/ set_pos + 3 > Len(tokens)
    THEN Throw("Invalid UPDATE syntax: missing or invalid SET clause", tbls)
    ELSE IF set_pos + 3 >= Len(tokens) /\ oob.crash
    THEN Crash(tbls)
    ELSE IF TokenAt(tokens, set_pos + 2, oob) # "="
    THEN Throw("Only '=' is supported in SET clause", tbls)
    ELSE update_where(tbls, key, TokenAt(tokens, set_pos + 1, oob),
             typed_value(find_column(tbls[key], TokenAt(tokens, set_pos + 1, oob)),
                         TokenAt(tokens, set_pos + 3, oob)),
             parse_where(tokens, tbls[key], oob))

exec_update(tbls, tokens, oob) ==
    IF Len(tokens) < 2
    THEN Throw("Invalid UPDATE syntax: missing table name", tbls)
    ELSE IF to_lower(tokens[2]) \notin DOMAIN tbls
    THEN Throw("Table not found", tbls)
    ELSE update_set(tbls, to_lower(tokens[2]), tokens, oob, FindToken(tokens, "set"))

\* execute, the DELETE FROM branch.
delete_where(tbls, key, w) ==
    IF w.status = "crash" THEN Crash(tbls)
    ELSE IF w.status = "error" THEN Throw(w.msg, tbls)
    ELSE finish(tbls, key, delete_rows(tbls[key], w.where))

exec_delete(tbls, tokens, oob) ==
    IF Len(tokens) < 3
    THEN Throw("Invalid DELETE syntax: missing table name", tbls)
    ELSE IF to_lower(tokens[3]) \notin DOMAIN tbls
    THEN Throw("Table not found", tbls)
    ELSE delete_where(tbls, to_lower(tokens[3]),
                      parse_where(tokens, tbls[to_lower(tokens[3])], oob))

\* The dispatch of execute on the first two tokens, lowercased.  tokens[1]
\* is read without a size check in the CREATE, INSERT and DELETE tests
\* (after tokens[0] matched).
dispatch(tbls, sql, tokens, oob, t0, t1) ==
    IF t0 \in {"create", "insert", "delete"} /\ Len(tokens) < 2 /\ oob.crash THEN Crash(tbls)
    ELSE IF t0 = "create" /\ t1 = "table" THEN exec_create(tbls, sql, tokens)
    ELSE IF t0 = "insert" /\ t1 = "into" THEN exec_insert(tbls, sql, tokens)
    ELSE IF t0 = "select" THEN exec_select(tbls, tokens, oob)
    ELSE IF t0 = "update" THEN exec_update(tbls, tokens, oob)
    ELSE IF t0 = "delete" /\ t1 = "from" THEN exec_delete(tbls, tokens, oob)
    ELSE Throw("Unsupported SQL command", tbls)

execute_tokens(tbls, sql, tokens, oob) ==
    IF tokens = <<>> THEN Done(tbls)
    ELSE dispatch(tbls, sql, tokens, oob, to_lower(tokens[1]), to_lower(TokenAt(tokens, 1, oob)))

\* Database::execute
execute(tbls, sql, oob) == execute_tokens(tbls, sql, TokensOf[sql], oob)

\* What execute prints on std::cout when a CREATE, INSERT, UPDATE or DELETE
\* returns (the table name as written in the statement); nothing is printed
\* when it throws.  SELECT prints its result (print_result).
create_message(table_name) == "Table " \o table_name \o " created successfully."

insert_message(table_name) == "1 row inserted into " \o table_name \o "."

update_message(table_name) == "Rows updated in " \o table_name \o "."

delete_message(table_name) == "Rows deleted from " \o table_name \o "."

printed_message(tokens, r) ==
    IF r.status # "ok" \/ tokens = <<>> THEN ""
    ELSE IF to_lower(tokens[1]) = "create" THEN create_message(tokens[3])
    ELSE IF to_lower(tokens[1]) = "insert" THEN insert_message(tokens[3])
    ELSE IF to_lower(tokens[1]) = "update" THEN update_message(tokens[2])
    ELSE IF to_lower(tokens[1]) = "delete" THEN delete_message(tokens[3])
    ELSE ""

\* Whether execute may index tokens (or select_cols) past its end on this
\* statement; only then do the outcomes of OutOfBoundsReads differ.
MayReadOutOfBounds(tokens) ==
    \/ Len(tokens) = 1 /\ to_lower(tokens[1]) \in {"create", "insert", "select", "delete"}
    \/ FindToken(tokens, "where") # NPOS /\ FindToken(tokens, "where") + 3 = Len(tokens)
    \/ FindToken(tokens, "set") # NPOS /\ FindToken(tokens, "set") + 3 = Len(tokens)
    \/ Len(tokens) >= 2 /\ to_lower(tokens[1]) = "select" /\ columns_selected(tokens[2]) = <<>>

ReadsFor == Tabulated([sql \in SqlTexts |->
                IF MayReadOutOfBounds(split_sql(sql)) THEN OutOfBoundsReads ELSE {InBounds}])

\* The most rows a table holds in the model.
MaxRows == 2

WithinBounds(tbls) == \A k \in DOMAIN tbls : Len(tbls[k].rows) <= MaxRows

(***************************************************************************)
(* The state: the Database's tables, and how the last call of execute      *)
(* ended: "ok", "error" (it threw) or "crash" ("none" before the first     *)
(* call).  After a crash the process is gone and no statement follows.     *)
(***************************************************************************)
Init == tables = <<>> /\ outcome = "none"

\* The ways one call of Database::execute on the database as it stands can
\* end: one per outcome of an out-of-bounds read, none once crashed.
Call(sql) ==
    IF outcome = "crash" THEN {}
    ELSE {r \in {execute(tables, sql, oob) : oob \in ReadsFor[sql]} : WithinBounds(r.tables)}

CreateTable ==
    \E sql \in CreateTexts : \E r \in Call(sql) : tables' = r.tables /\ outcome' = r.status

InsertInto ==
    \E sql \in InsertTexts : \E r \in Call(sql) : tables' = r.tables /\ outcome' = r.status

Select ==
    \E sql \in SelectTexts : \E r \in Call(sql) : tables' = r.tables /\ outcome' = r.status

Update ==
    \E sql \in UpdateTexts : \E r \in Call(sql) : tables' = r.tables /\ outcome' = r.status

DeleteFrom ==
    \E sql \in DeleteTexts : \E r \in Call(sql) : tables' = r.tables /\ outcome' = r.status

Other ==
    \E sql \in OtherTexts : \E r \in Call(sql) : tables' = r.tables /\ outcome' = r.status

Next == CreateTable \/ InsertInto \/ Select \/ Update \/ DeleteFrom \/ Other

Spec == Init /\ [][Next]_vars

(***************************************************************************)
(* The statements of the properties below, read as SQL: the table a        *)
(* statement names (by its registry key), its columns as written, and the  *)
(* value each literal denotes.                                             *)
(***************************************************************************)
InsertCases ==
    {[sql |-> "INSERT INTO t (a, b) VALUES (1, 'x')", table |-> "t",
      cols |-> <<"a", "b">>, vals |-> <<IntValue(1), StrValue("x")>>],
     [sql |-> "INSERT INTO T (a, b) VALUES (1, 'x')", table |-> "t",
      cols |-> <<"a", "b">>, vals |-> <<IntValue(1), StrValue("x")>>],
     [sql |-> "insert into T (A, b) values (2, 'y')", table |-> "t",
      cols |-> <<"A", "b">>, vals |-> <<IntValue(2), StrValue("y")>>],
     [sql |-> "INSERT INTO t (a, A, b) VALUES (1, 2, 'x')", table |-> "t",
      cols |-> <<"a", "A", "b">>, vals |-> <<IntValue(1), IntValue(2), StrValue("x")>>],
     [sql |-> "INSERT INTO u (k, K) VALUES (1, 2)", table |-> "u",
      cols |-> <<"k", "K">>, vals |-> <<IntValue(1), IntValue(2)>>],
     \* 'a1b' given for an INT column: the literal as str_to_value coerces it.
     [sql |-> "INSERT INTO t (a, b) VALUES ('a1b', 'x')", table |-> "t",
      cols |-> <<"a", "b">>, vals |-> <<str_to_value("'a1b'", DT_INT).val, StrValue("x")>>]}

UpdateCases ==
    {[sql |-> "UPDATE t SET a = 2", table |-> "t",
      col |-> "a", val |-> IntValue(2), where |-> NoWhere],
     [sql |-> "UPDATE t SET a = 2 WHERE a = 1", table |-> "t",
      col |-> "a", val |-> IntValue(2), where |-> Where("a", IntValue(1))],
     [sql |-> "UPDATE T SET a = 2 WHERE a = 1", table |-> "t",
      col |-> "a", val |-> IntValue(2), where |-> Where("a", IntValue(1))],
     [sql |-> "update T set A = 1 where B = 'x'", table |-> "t",
      col |-> "A", val |-> IntValue(1), where |-> Where("B", StrValue("x"))],
     [sql |-> "UPDATE t SET a = 1 WHERE a = 2", table |-> "t",
      col |-> "a", val |-> IntValue(1), where |-> Where("a", IntValue(2))],
     [sql |-> "UPDATE u SET k = 1", table |-> "u",
      col |-> "k", val |-> IntValue(1), where |-> NoWhere]}

\* check: a SELECT with the same WHERE clause.
DeleteCases ==
    {[sql |-> "DELETE FROM t WHERE a = 1", table |-> "t",
      where |-> Where("a", IntValue(1)), check |-> "SELECT a FROM t WHERE a = 1"],
     [sql |-> "DELETE FROM T WHERE a = 1", table |-> "t",
      where |-> Where("a", IntValue(1)), check |-> "SELECT a FROM t WHERE a = 1"],
     [sql |-> "delete from T where A = 2", table |-> "t",
      where |-> Where("A", IntValue(2)), check |-> "SELECT a,b FROM t WHERE a = 2"],
     [sql |-> "DELETE FROM t WHERE b = 'x'", table |-> "t",
      where |-> Where("b", StrValue("x")), check |-> "SELECT b,A FROM T WHERE B = 'x'"],
     [sql |-> "DELETE FROM u WHERE K = 2", table |-> "u",
      where |-> Where("K", IntValue(2)), check |-> "SELECT K FROM U WHERE k = 2"]}

\* A DELETE without WHERE, and statements on the same table to follow it.
DeleteAllCases ==
    {[sql |-> "DELETE FROM t", table |-> "t",
      select |-> "SELECT * FROM t",
      insert |-> "INSERT INTO t (a, b) VALUES (1, 'x')",
      create |-> "CREATE TABLE t (a INT, b STRING)"]}

SelectCases ==
    {[sql |-> "SELECT * FROM t", table |-> "t", cols |-> <<"*">>, where |-> NoWhere],
     [sql |-> "select * from T", table |-> "t", cols |-> <<"*">>, where |-> NoWhere],
     [sql |-> "SELECT a FROM t WHERE a = 1", table |-> "t",
      cols |-> <<"a">>, where |-> Where("a", IntValue(1))],
     [sql |-> "SELECT b,A FROM T WHERE B = 'x'", table |-> "t",
      cols |-> <<"b", "A">>, where |-> Where("B", StrValue("x"))],
     [sql |-> "SELECT a,b FROM t WHERE a = 2", table |-> "t",
      cols |-> <<"a", "b">>, where |-> Where("a", IntValue(2))],
     [sql |-> "SELECT zz FROM t", table |-> "t", cols |-> <<"zz">>, where |-> NoWhere],
     [sql |-> "SELECT zz FROM t WHERE a = 1", table |-> "t",
      cols |-> <<"zz">>, where |-> Where("a", IntValue(1))],
     [sql |-> "SELECT * FROM u", table |-> "u", cols |-> <<"*">>, where |-> NoWhere],
     [sql |-> "SELECT K FROM U WHERE k = 2", table |-> "u",
      cols |-> <<"K">>, where |-> Where("k", IntValue(2))]}

CreateCases ==
    {[sql |-> "CREATE TABLE t (a INT, b STRING)", name |-> "t"],
     [sql |-> "create table U (k int, K int)", name |-> "U"],
     [sql |-> "CREATE TABLE u (k INT)", name |-> "u"]}

\* Pairs of statements that differ only in the letter case of the table
\* name (and of keywords).
CasingPairs ==
    {<<"SELECT * FROM t", "select * from T">>,
     <<"INSERT INTO t (a, b) VALUES (1, 'x')", "INSERT INTO T (a, b) VALUES (1, 'x')">>,
     <<"UPDATE t SET a = 2 WHERE a = 1", "UPDATE T SET a = 2 WHERE a = 1">>,
     <<"DELETE FROM t WHERE a = 1", "DELETE FROM T WHERE a = 1">>}

SelectAll == [t |-> "SELECT * FROM t", u |-> "SELECT * FROM u"]

\* The column names of a schema, in order.
ColumnNames(table) == [j \in 1..Len(table.columns) |-> table.columns[j].name]

\* A row satisfies a WHERE clause: its value for the column equals the
\* value given (every row satisfies an absent clause).
Satisfies(row, where_clause) ==
    \/ ~where_clause.present
    \/ /\ get_value(row, where_clause.col).ok
       /\ get_value(row, where_clause.col).val = where_clause.val

Satisfying(rows, where_clause) ==
    LET Test(row) == Satisfies(row, where_clause) IN SelectSeq(rows, Test)

NotSatisfying(rows, where_clause) ==
    LET Test(row) == ~Satisfies(row, where_clause) IN SelectSeq(rows, Test)

\* Two databases differ at most in the rows of one table.
SameButRowsOf(key, before, after) ==
    /\ DOMAIN after = DOMAIN before
    /\ \A k \in DOMAIN before \ {key} : after[k] = before[k]
    /\ after[key].name = before[key].name
    /\ after[key].columns = before[key].columns

\* Two rows stored by INSERT statements, the second naming column a as A.
RowA1 == [a |-> IntValue(1), b |-> StrValue("x")]

RowA2 == [A |-> IntValue(2), b |-> StrValue("y")]

(***************************************************************************)
(* C1: every row stored in every table holds exactly one value per schema  *)
(* column (no column missing, no key outside the schema, no two keys that  *)
(* differ only in letter case), each of the declared type.                 *)
(***************************************************************************)
C1_RowsHoldOneValuePerColumn ==
    \A k \in DOMAIN tables : \A i \in 1..Len(tables[k].rows) :
        LET row == tables[k].rows[i]
            columns == tables[k].columns
        IN  /\ \A j \in 1..Len(columns) :
                  /\ Cardinality(MatchingKeys(row, columns[j].name)) = 1
                  /\ \A key \in MatchingKeys(row, columns[j].name) :
                         row[key].type = columns[j].type
            /\ \A key \in DOMAIN row : MatchingColumns(columns, key) # {}
            /\ \A key \in DOMAIN row : \A other \in DOMAIN row :
                  to_lower(key) = to_lower(other) => key = other

(***************************************************************************)
(* C2: a statement that execute rejects with an error leaves the tables    *)
(* as they were: the same tables, schemas and rows.                        *)
(***************************************************************************)
C2_FailedStatementChangesNothing == [][outcome' = "error" => tables' = tables]_vars

\* C2, the case: a statement has just failed on a table that holds two rows.
C2_FailedOnStoredRows ==
    /\ outcome = "error"
    /\ "t" \in DOMAIN tables
    /\ tables["t"].rows = <<RowA1, RowA2>>

\* The values an INSERT gives for a schema column: those at the positions
\* of its column list that name the column, letter case ignored.
GivenFor(c, name) ==
    {c.vals[p] : p \in {q \in 1..Len(c.cols) : to_lower(c.cols[q]) = to_lower(name)}}

C4_UpdatedRowsReadBack ==
    \A c \in UpdateCases : c.table \in DOMAIN tables =>
        \A r \in {execute(tables, c.sql, InBounds)} : r.status = "ok" =>
            \A i \in 1..Len(tables[c.table].rows) :
                Satisfies(tables[c.table].rows[i], c.where) =>
                    /\ get_value(r.tables[c.table].rows[i], c.col).val = c.val
                    /\ Satisfies(r.tables[c.table].rows[i], Where(c.col, c.val))

(***************************************************************************)
(* C5: a successful UPDATE with a WHERE clause leaves every row that does  *)
(* not satisfy the clause unchanged, leaves every column other than the    *)
(* SET column unchanged in the rows it modifies, and changes neither the   *)
(* number or order of the rows nor any other table.                        *)
(***************************************************************************)
C5_UpdateWhereFrame ==
    \A c \in UpdateCases : c.where.present /\ c.table \in DOMAIN tables =>
        \A r \in {execute(tables, c.sql, InBounds)} : r.status = "ok" =>
            /\ SameButRowsOf(c.table, tables, r.tables)
            /\ Len(r.tables[c.table].rows) = Len(tables[c.table].rows)
            /\ \A i \in 1..Len(tables[c.table].rows) :
                   LET old == tables[c.table].rows[i]
                       new == r.tables[c.table].rows[i]
                   IN  /\ ~Satisfies(old, c.where) => new = old
                       /\ \A key \in DOMAIN old :
                              to_lower(key) # to_lower(c.col) =>
                                  key \in DOMAIN new /\ new[key] = old[key]
                       /\ \A key \in DOMAIN new \ DOMAIN old :
                              to_lower(key) = to_lower(c.col)
                       /\ \A j \in 1..Len(tables[c.table].columns) :
                              to_lower(tables[c.table].columns[j].name) # to_lower(c.col) =>
                                  get_value(new, tables[c.table].columns[j].name)
                                      = get_value(old, tables[c.table].columns[j].name)

\* C5, the case: of two stored rows an UPDATE with WHERE changes the one
\* that satisfies the clause and keeps the other.
C5_OneRowOfTwoUpdated ==
    /\ "t" \in DOMAIN tables /\ "u" \in DOMAIN tables
    /\ tables["t"].rows = <<RowA1, RowA2>>
    /\ execute(tables, "UPDATE t SET a = 2 WHERE a = 1", InBounds).status = "ok"
    /\ execute(tables, "UPDATE t SET a = 2 WHERE a = 1", InBounds).tables["t"].rows
           = <<[a |-> IntValue(2), b |-> StrValue("x")], RowA2>>

C7_DeleteAllKeepsTable ==
    \A c \in DeleteAllCases : c.table \in DOMAIN tables =>
        \A r \in {execute(tables, c.sql, InBounds)} :
            /\ r.status = "ok"
            /\ r.tables = [tables EXCEPT ![c.table].rows = <<>>]
            /\ \A s \in {execute(r.tables, c.select, InBounds)} :
                   /\ s.status = "ok"
                   /\ s.result = <<>>
                   /\ s.display_cols = ColumnNames(tables[c.table])
                   /\ PrintedRows(s.result, s.display_cols) = <<>>
            /\ \A s \in {execute(r.tables, c.insert, InBounds)} :
                   s.status = "ok" /\ Len(s.tables[c.table].rows) = 1
            /\ \A s \in {execute(r.tables, c.create, InBounds)} :
                   s.status = "error" /\ s.msg = "Table already exists" /\ s.tables = r.tables

\* C7, the case: a table holding two rows is emptied by DELETE FROM t.
C7_TwoRowsDeleted ==
    /\ "t" \in DOMAIN tables
    /\ tables["t"].rows = <<RowA1, RowA2>>
    /\ execute(tables, "DELETE FROM t", InBounds).tables["t"].rows = <<>>
    /\ execute(tables, "DELETE FROM t", InBounds).tables["t"].columns = tables["t"].columns

(***************************************************************************)
(* C8: an INSERT that gives a quoted string literal for an INT column is   *)
(* rejected with a type-mismatch error and stores nothing, also when the   *)
(* literal contains digits ('a1b').                                        *)
(***************************************************************************)
C8_StringLiteralForIntRejected ==
    \A sql \in {"INSERT INTO t (a, b) VALUES ('a1b', 'x')",
                "INSERT INTO t (a, b) VALUES ('x', 'x')"} :
        "t" \in DOMAIN tables =>
            \A r \in {execute(tables, sql, InBounds)} :
                /\ r.status = "error"
                /\ r.msg = "Type mismatch for column"
                /\ r.tables = tables

(***************************************************************************)
(* C9: table names are resolved ignoring letter case.  The registry never  *)
(* holds two tables whose names are equal ignoring case; CREATE TABLE with *)
(* a name equal, ignoring case, to that of a registered table fails and    *)
(* leaves the registry unchanged; and INSERT, SELECT, UPDATE and DELETE    *)
(* do the same whatever the letter case of the table name.                 *)
(***************************************************************************)
C9_TableNamesIgnoreCase ==
    /\ \A k1 \in DOMAIN tables : \A k2 \in DOMAIN tables :
           to_lower(tables[k1].name) = to_lower(tables[k2].name) => k1 = k2
    /\ \A c \in CreateCases :
           (\E k \in DOMAIN tables : to_lower(tables[k].name) = to_lower(c.name)) =>
               \A r \in {execute(tables, c.sql, InBounds)} :
                   r.status = "error" /\ r.tables = tables
    /\ \A p \in CasingPairs :
           execute(tables, p[1], InBounds) = execute(tables, p[2], InBounds)

\* C9, the case: table U was created under that spelling, CREATE TABLE u
\* fails, and a row stored in t is returned by a SELECT naming T.
C9_OtherCasingSameTable ==
    /\ "u" \in DOMAIN tables /\ tables["u"].name = "U"
    /\ execute(tables, "CREATE TABLE u (k INT)", InBounds).msg = "Table already exists"
    /\ "t" \in DOMAIN tables /\ tables["t"].rows = <<RowA1>>
    /\ execute(tables, "select * from T", InBounds).result = <<RowA1>>
    /\ execute(tables, "INSERT INTO T (a, b) VALUES (1, 'x')", InBounds).tables["t"].rows
           = <<RowA1, RowA1>>

\* A result row holds the requested columns of a stored row: its keys are
\* schema column names, each requested (ignoring case) and each requested
\* column has one; the values are those the stored row holds.
Projects(result_row, row, table, cols) ==
    /\ \A key \in DOMAIN result_row :
           /\ \E j \in 1..Len(table.columns) : table.columns[j].name = key
           /\ cols = <<"*">> \/ \E q \in 1..Len(cols) : to_lower(cols[q]) = to_lower(key)
           /\ get_value(row, key).ok
           /\ result_row[key] = get_value(row, key).val
    /\ cols = <<"*">> =>
           DOMAIN result_row = {table.columns[j].name : j \in 1..Len(table.columns)}
    /\ cols # <<"*">> =>
           \A q \in 1..Len(cols) : \E key \in DOMAIN result_row : to_lower(key) = to_lower(cols[q])

(***************************************************************************)
(* C10: SELECT cols FROM t [WHERE c = v] returns one result row per stored *)
(* row that satisfies the clause (per stored row without WHERE), in the    *)
(* stored order, each holding only the requested columns (all schema       *)
(* columns for a star) under the schema's spelling with the stored values; *)
(* and SELECT leaves the tables unchanged.                                 *)
(***************************************************************************)
C10_SelectReturnsMatchingRows ==
    \A c \in SelectCases : c.table \in DOMAIN tables =>
        \A r \in {execute(tables, c.sql, InBounds)} :
            /\ r.tables = tables
            /\ (c.cols = <<"*">> \/ \A q \in 1..Len(c.cols) : has_column(tables[c.table], c.cols[q]))
                   => r.status = "ok"
            /\ r.status = "ok" =>
                   \A rows \in {Satisfying(tables[c.table].rows, c.where)} :
                       /\ Len(r.result) = Len(rows)
                       /\ \A i \in 1..Len(rows) :
                              Projects(r.result[i], rows[i], tables[c.table], c.cols)

\* C10, the case: of two stored rows a SELECT with WHERE returns the one
\* that matches, with the two requested columns under the schema's spelling.
C10_OneRowOfTwoSelected ==
    /\ "t" \in DOMAIN tables
    /\ tables["t"].rows = <<RowA2, RowA1>>
    /\ execute(tables, "SELECT b,A FROM T WHERE B = 'x'", InBounds).result = <<RowA1>>
    /\ execute(tables, "SELECT * FROM t", InBounds).result
           = <<[a |-> IntValue(2), b |-> StrValue("y")], RowA1>>

\* The CREATE TABLE statements that can succeed, with the table name and
\* the columns each declares.
CreateSchemas ==
    {[sql |-> "CREATE TABLE t (a INT, b STRING)", name |-> "t",
      columns |-> <<[name |-> "a", type |-> DT_INT], [name |-> "b", type |-> DT_STRING]>>],
     [sql |-> "create table U (k int, K int)", name |-> "U",
      columns |-> <<[name |-> "k", type |-> DT_INT], [name |-> "K", type |-> DT_INT]>>],
     [sql |-> "CREATE TABLE u (k INT)", name |-> "u",
      columns |-> <<[name |-> "k", type |-> DT_INT]>>]}

\* A CREATE TABLE that succeeds registers the table it declares, without
\* rows, and changes no other table; it succeeds when no registered name
\* equals its name ignoring case.
CreateRegistersDeclared ==
    \A c \in CreateSchemas :
        \A r \in {execute(tables, c.sql, InBounds)} :
            /\ to_lower(c.name) \notin DOMAIN tables => r.status = "ok"
            /\ r.status = "ok" =>
                   /\ to_lower(c.name) \notin DOMAIN tables
                   /\ DOMAIN r.tables = DOMAIN tables \cup {to_lower(c.name)}
                   /\ \A k \in DOMAIN tables : r.tables[k] = tables[k]
                   /\ r.tables[to_lower(c.name)]
                          = [name |-> c.name, columns |-> c.columns, rows |-> <<>>]

\* A step keeps every registered table registered, with its name and its
\* schema, and a table it registers is one that a CREATE TABLE declares.
SchemaKept ==
    /\ \A k \in DOMAIN tables :
           /\ k \in DOMAIN tables'
           /\ tables'[k].name = tables[k].name
           /\ tables'[k].columns = tables[k].columns
    /\ \A k \in DOMAIN tables' \ DOMAIN tables :
           \E c \in CreateSchemas :
               /\ k = to_lower(c.name)
               /\ tables'[k] = [name |-> c.name, columns |-> c.columns, rows |-> <<>>]

(***************************************************************************)
(* C11: a successful CREATE TABLE registers a new table with zero rows     *)
(* whose schema is exactly the declared columns, in the declared order     *)
(* and with the declared types, and no later statement of any kind         *)
(* changes the schema of a registered table.                               *)
(***************************************************************************)
C11_SchemaAsDeclaredAndKept == [](CreateRegistersDeclared) /\ [][SchemaKept]_vars

\* C11, the case: t and U were created as declared, and rows of t have
\* since been inserted, updated and deleted.
C11_SchemaAfterOtherStatements ==
    /\ "t" \in DOMAIN tables /\ "u" \in DOMAIN tables
    /\ tables["t"].columns = <<[name |-> "a", type |-> DT_INT], [name |-> "b", type |-> DT_STRING]>>
    /\ tables["u"] = [name |-> "U",
                      columns |-> <<[name |-> "k", type |-> DT_INT], [name |-> "K", type |-> DT_INT]>>,
                      rows |-> <<>>]
    /\ tables["t"].rows = <<[a |-> IntValue(2), b |-> StrValue("x")]>>
    /\ outcome = "ok"

(***************************************************************************)
(* C12: a successful UPDATE reports the number of rows that satisfied its  *)
(* WHERE clause (of all rows without WHERE), and a successful DELETE the   *)
(* number of rows it removed: the count appears in what the statement      *)
(* prints.                                                                 *)
(***************************************************************************)
C12_AffectedRowsReported ==
    /\ \A c \in UpdateCases : c.table \in DOMAIN tables =>
           \A r \in {execute(tables, c.sql, InBounds)} : r.status = "ok" =>
               Find(printed_message(TokensOf[c.sql], r),
                    NatToString(Len(Satisfying(tables[c.table].rows, c.where))), 0) # NPOS
    /\ \A c \in DeleteCases \cup DeleteAllCases : c.table \in DOMAIN tables =>
           \A r \in {execute(tables, c.sql, InBounds)} : r.status = "ok" =>
               Find(printed_message(TokensOf[c.sql], r),
                    NatToString(Len(tables[c.table].rows) - Len(r.tables[c.table].rows)), 0) # NPOS

\* Statements whose keyword is followed by too few tokens.
TooFewTokens ==
    {"DELETE FROM t WHERE", "DELETE FROM t WHERE a", "DELETE FROM t WHERE a =",
     "UPDATE t SET a = 2 WHERE a", "UPDATE t SET a = 2 WHERE a =",
     "SELECT a FROM t WHERE a", "SELECT a FROM t WHERE a =",
     "UPDATE t SET a", "UPDATE t SET a =", "UPDATE t", "UPDATE",
     "CREATE TABLE", "INSERT INTO", "DELETE FROM", "SELECT a",
     "CREATE", "INSERT", "SELECT", "DELETE"}

(***************************************************************************)
(* C13: a statement whose keyword is followed by too few tokens fails with *)
(* an error and has no effect.  A DELETE, UPDATE or SELECT with fewer than *)
(* three tokens after WHERE is not run as if it had no WHERE clause, and a *)
(* one-token statement fails with an error rather than reading past the    *)
(* token list.                                                             *)
(***************************************************************************)
C13_TooFewTokensRejected ==
    \A sql \in TooFewTokens : \A oob \in ReadsFor[sql] :
        \A r \in {execute(tables, sql, oob)} :
            r.status = "error" /\ r.tables = tables

\* The part of C13 that needs no read past the token list: WHERE followed
\* by no token or by one token.
C13_ShortWhereRejected ==
    \A sql \in {"DELETE FROM t WHERE", "DELETE FROM t WHERE a",
                "UPDATE t SET a = 2 WHERE a", "SELECT a FROM t WHERE a"} :
        \A r \in {execute(tables, sql, InBounds)} :
            r.status = "error" /\ r.tables = tables

(***************************************************************************)
(* C14: a SELECT whose column list names a column that is not in the       *)
(* schema of the table fails with a column-not-found error whatever the    *)
(* table holds: also when it is empty and when no row satisfies the WHERE  *)
(* clause.                                                                 *)
(***************************************************************************)
C14_UnknownSelectColumnRejected ==
    \A sql \in {"SELECT zz FROM t", "SELECT zz FROM t WHERE a = 1"} :
        "t" \in DOMAIN tables =>
            \A r \in {execute(tables, sql, InBounds)} :
                r.status = "error" /\ r.msg = "Column not found in SELECT"

\* Pairs of statements that differ only in the letter case of keywords.
KeywordCasings ==
    {<<"INSERT INTO t (a, b) VALUES (1, 'x')", "INSERT INTO t (a, b) Values (1, 'x')">>,
     <<"SELECT a FROM t WHERE a = 1", "select a From t wHERE a = 1">>,
     <<"UPDATE t SET a = 2 WHERE a = 1", "update t Set a = 2 where a = 1">>,
     <<"DELETE FROM t WHERE a = 1", "Delete from t Where a = 1">>}

(***************************************************************************)
(* C15: keywords are recognised in any letter case: two statements that    *)
(* differ only in the casing of keywords have the same outcome and leave   *)
(* the same tables; INSERT finds its VALUES clause in every casing.        *)
(***************************************************************************)
C15_KeywordCasingIrrelevant ==
    \A p \in KeywordCasings :
        execute_tokens(tables, p[1], split_sql(p[1]), InBounds)
            = execute_tokens(tables, p[2], split_sql(p[2]), InBounds)

====
